---- MODULE Spec2Model ----
(***************************************************************************)
(* A model of the record transformation core of snap: the field resolvers  *)
(* and the FieldValueMap, RecordTransformer and RecordTransformerBuilder   *)
(* of datamap.py, and the ComplianceStatsProcessor of seesv.py.            *)
(*                                                                         *)
(* Python values are modelled as strings; None is the value NoneVal.  A    *)
(* dict is a function whose DOMAIN is its key set.  A method is an         *)
(* operator from the object's state (self) and the arguments to the state  *)
(* after the call and the call's outcome (a return value or an exception). *)
(***************************************************************************)
EXTENDS Integers, Sequences, FiniteSets, TLC

VARIABLES
    target_record_fields,   \* RecordTransformer.target_record_fields (a set)
    datasources,            \* RecordTransformer.datasources (dict)
    field_map,              \* RecordTransformer.field_map (dict)
    value_map,              \* RecordTransformer.value_map._resolvers (dict)
    call,                   \* the last call made on the transformer or builder
    outcome,                \* what that call returned or raised
    instances,              \* number of datasource instances created so far
    transformers,           \* number of RecordTransformer objects created so far
    required_fields,        \* ComplianceStatsProcessor._required_fields, in iteration order
    valid_record_count,     \* ComplianceStatsProcessor._valid_record_count
    invalid_record_count,   \* ComplianceStatsProcessor._invalid_record_count
    error_table,            \* ComplianceStatsProcessor._error_table (dict)
    record_index,           \* ComplianceStatsProcessor._record_index
    stats_call,             \* the last call made on the compliance processor
    stats_outcome,          \* what that call returned
    schema_config,          \* the record type's schema, its fields in document order
    pipeline,               \* the processor records are fed to: its stages, itself first
    header_fields,          \* Dictionary2CSVProcessor._header_fields (a list)
    record_count,           \* Dictionary2CSVProcessor._record_count
    stdout                  \* the lines printed by the Dictionary2CSVProcessor

ovars == <<header_fields, record_count, stdout>>
xvars == <<target_record_fields, datasources, field_map, value_map>>
tvars == <<target_record_fields, datasources, field_map, value_map, call, outcome,
           instances, transformers>>
cvars == <<required_fields, valid_record_count, invalid_record_count, error_table,
           record_index, stats_call, stats_outcome, schema_config, pipeline,
           header_fields, record_count, stdout>>
vars == <<target_record_fields, datasources, field_map, value_map, call, outcome,
          instances, transformers, required_fields, valid_record_count,
          invalid_record_count, error_table, record_index, stats_call, stats_outcome,
          schema_config, pipeline, header_fields, record_count, stdout>>

(***************************************************************************)
(* Python values and dicts                                                 *)
(***************************************************************************)
NoneVal == "<None>"

\* Python truth value of the values that occur: None and '' are false; every
\* other string is true.
Truthy(v) == v # NoneVal /\ v # ""

EmptyDict == [k \in {} |-> NoneVal]

\* d.get(k) with the default None
Get(d, k) == IF k \in DOMAIN d THEN d[k] ELSE NoneVal

\* d[k] = v
Put(d, k, v) == [x \in DOMAIN d \cup {k} |-> IF x = k THEN v ELSE d[x]]

\* the truth value of d.get(k) when the values of d are object instances
\* (resolvers, datasources), which are true
HasObject(d, k) == k \in DOMAIN d

(***************************************************************************)
(* Outcomes of a call                                                      *)
(***************************************************************************)
Return(v, isfresh) ==
    [kind |-> "return", exc |-> "", args |-> <<>>, value |-> v, fresh |-> isfresh]

Raise(e, a) ==
    [kind |-> "raise", exc |-> e, args |-> a, value |-> NoneVal, fresh |-> FALSE]

NoCall == [op |-> "none"]
NoOutcome == Return(NoneVal, FALSE)

(***************************************************************************)
(* Inputs                                                                  *)
(***************************************************************************)
\* target field names passed to the transformer's methods
TargetNames == {"f", "g"}

\* source record field names and the values they carry
SourceNames == {"a", "b"}
SourceValues == {"", "x", "y"}

\* the source records: a holds '' or 'x' or is absent, b holds '' or 'y' or
\* is absent
SourceRecords ==
    {r \in UNION {[ks -> SourceValues] : ks \in SUBSET SourceNames} :
        /\ "a" \in DOMAIN r => r["a"] \in {"", "x"}
        /\ "b" \in DOMAIN r => r["b"] \in {"", "y"}}

\* source field designators, as the characters of the string
Designators == {<<"a", "|", "b">>, <<"b", "|", "a">>}

\* constants mapped to a target field
ConstValues == {"active", ""}

\* keyword arguments of transform: one names a target field, one does not
ExtraNames == {"f", "k"}
Extras == UNION {[ks -> {"kw"}] : ks \in SUBSET ExtraNames}

\* the orders in which a set can be iterated
Orders(S) == {o \in [1..Cardinality(S) -> S] : \A i, j \in DOMAIN o : o[i] = o[j] => i = j}

(***************************************************************************)
(* Datasources: instances of classes of the lookup source module.         *)
(* StubSource has a lookup method for every target field and returns       *)
(* 'EAST'.  PeerSource has lookup_f only, which returns the value of the   *)
(* peer field g taken from the value map it is handed.                     *)
(***************************************************************************)
DatasourceClasses == {"StubSource", "PeerSource"}

Datasource(cls, id) == [cls |-> cls, id |-> id]

LookupMethods(cls) ==
    IF cls = "StubSource" THEN {"lookup_f", "lookup_g"} ELSE {"lookup_f"}

(***************************************************************************)
(* Field resolvers                                                         *)
(***************************************************************************)
RECURSIVE SplitFrom(_, _, _, _)
SplitFrom(s, i, cur, acc) ==
    IF i > Len(s) THEN Append(acc, cur)
    ELSE IF s[i] = "|" THEN SplitFrom(s, i + 1, "", Append(acc, cur))
    ELSE SplitFrom(s, i + 1, cur \o s[i], acc)

\* field_name_string.split('|')
Split(s) == SplitFrom(s, 1, "", <<>>)

\* FieldValueResolver(field_name_string)
FieldValueResolver(field_name_string) ==
    [kind |-> "field", field_names |-> Split(field_name_string), value |-> NoneVal]

\* ConstValueResolver(value)
ConstValueResolver(value) ==
    [kind |-> "const", field_names |-> <<>>, value |-> value]

RECURSIVE ResolveFrom(_, _, _)
ResolveFrom(field_names, i, source_record) ==
    IF i > Len(field_names) THEN NoneVal
    ELSE IF Truthy(Get(source_record, field_names[i])) THEN source_record[field_names[i]]
    ELSE ResolveFrom(field_names, i + 1, source_record)

\* a variant of resolve that takes the first candidate that is a key of the
\* source record, empty or not; C4 must tell it from the code
RECURSIVE ResolvePresentFrom(_, _, _)
ResolvePresentFrom(field_names, i, source_record) ==
    IF i > Len(field_names) THEN NoneVal
    ELSE IF field_names[i] \in DOMAIN source_record THEN source_record[field_names[i]]
    ELSE ResolvePresentFrom(field_names, i + 1, source_record)

FieldValueResolver_resolve_present(resolver, source_record) ==
    ResolvePresentFrom(resolver.field_names, 1, source_record)

\* FieldValueResolver.resolve
FieldValueResolver_resolve(resolver, source_record) ==
    ResolveFrom(resolver.field_names, 1, source_record)

\* ConstValueResolver.resolve
ConstValueResolver_resolve(resolver, source_record) == resolver.value

\* resolver.resolve(source_record), dispatched on the resolver's class
Resolve(resolver, source_record) ==
    IF resolver.kind = "field" THEN FieldValueResolver_resolve(resolver, source_record)
    ELSE ConstValueResolver_resolve(resolver, source_record)

(***************************************************************************)
(* FieldValueMap                                                           *)
(***************************************************************************)
\* FieldValueMap.add_resolver: the _resolvers dict after the call
FieldValueMap_add_resolver(resolvers, field_value_resolver, field_name) ==
    Put(resolvers, field_name, field_value_resolver)

\* FieldValueMap.get_value
FieldValueMap_get_value(resolvers, field_name, source_record) ==
    IF ~HasObject(resolvers, field_name)
    THEN Raise("Exception", <<"No FieldValueResolver registered", field_name>>)
    ELSE Return(Resolve(resolvers[field_name], source_record), FALSE)

\* getattr(datasource, transform_func_name)(target_field_name, source_record, value_map)
DatasourceLookup(datasource, transform_func_name, target_field_name, source_record, resolvers) ==
    IF datasource.cls = "StubSource" THEN Return("EAST", FALSE)
    ELSE FieldValueMap_get_value(resolvers, "g", source_record)

(***************************************************************************)
(* RecordTransformer.  self is the record of the object's four fields; a   *)
(* mutator yields the object after the call and the call's outcome.        *)
(***************************************************************************)
Self == [target_record_fields |-> target_record_fields, datasources |-> datasources,
         field_map |-> field_map, value_map |-> value_map]

\* RecordTransformer.__init__
RecordTransformer_init ==
    [target_record_fields |-> {}, datasources |-> EmptyDict,
     field_map |-> EmptyDict, value_map |-> EmptyDict]

Result(self, out) == [self |-> self, outcome |-> out]

\* RecordTransformer.add_target_field
add_target_field(self, target_field_name) ==
    Result([self EXCEPT !.target_record_fields = @ \cup {target_field_name}],
           Return(NoneVal, FALSE))

\* RecordTransformer.map_source_to_target_field
map_source_to_target_field(self, source_field_designator, target_field_name) ==
    IF target_field_name \notin self.target_record_fields
    THEN Result(self, Raise("NoSuchTargetFieldException", <<target_field_name>>))
    ELSE LET resolver == FieldValueResolver(source_field_designator)
         IN  Result([self EXCEPT
                        !.field_map = Put(@, target_field_name, resolver),
                        !.value_map = FieldValueMap_add_resolver(@, resolver, target_field_name)],
                    Return(NoneVal, FALSE))

\* a variant of map_const_to_target_field without the check of the target
\* field; C5 must tell it from the code
map_const_unchecked(self, target_field_name, value) ==
    Result([self EXCEPT
               !.field_map = Put(@, target_field_name, ConstValueResolver(value))],
           Return(NoneVal, FALSE))

\* RecordTransformer.map_const_to_target_field
map_const_to_target_field(self, target_field_name, value) ==
    IF target_field_name \notin self.target_record_fields
    THEN Result(self, Raise("NoSuchTargetFieldException", <<target_field_name>>))
    ELSE Result([self EXCEPT
                    !.field_map = Put(@, target_field_name, ConstValueResolver(value))],
                Return(NoneVal, FALSE))

\* a variant of register_datasource without the check of the target field;
\* C6 must tell it from the code
register_datasource_unchecked(self, target_field_name, datasource) ==
    Result([self EXCEPT !.datasources = Put(@, target_field_name, datasource)],
           Return(NoneVal, FALSE))

\* a variant of register_datasource that drops the resolver of the field;
\* C7 must tell it from the code
register_datasource_exclusive(self, target_field_name, datasource) ==
    IF target_field_name \notin self.target_record_fields
    THEN Result(self, Raise("Exception", <<"No target field has been added", target_field_name>>))
    ELSE Result([self EXCEPT
                    !.datasources = Put(@, target_field_name, datasource),
                    !.field_map = [k \in DOMAIN @ \ {target_field_name} |-> @[k]]],
                Return(NoneVal, FALSE))

\* RecordTransformer.register_datasource
register_datasource(self, target_field_name, datasource) ==
    IF target_field_name \notin self.target_record_fields
    THEN Result(self, Raise("Exception", <<"No target field has been added", target_field_name>>))
    ELSE Result([self EXCEPT !.datasources = Put(@, target_field_name, datasource)],
                Return(NoneVal, FALSE))

\* RecordTransformer.lookup
lookup(self, target_field_name, source_record) ==
    IF ~HasObject(self.datasources, target_field_name)
    THEN Raise("NoDatasourceForFieldException", <<target_field_name>>)
    ELSE LET datasource == self.datasources[target_field_name]
             transform_func_name == "lookup_" \o target_field_name
         IN  IF transform_func_name \notin LookupMethods(datasource.cls)
             THEN Raise("NoSuchLookupMethodException", <<datasource.cls, transform_func_name>>)
             ELSE DatasourceLookup(datasource, transform_func_name, target_field_name,
                                   source_record, self.value_map)

\* a variant of the loop of transform that consults field_map before
\* datasources; C1 must tell it from the loop of the code
RECURSIVE TransformFromResolverFirst(_, _, _, _, _)
TransformFromResolverFirst(self, order, i, source_record, target_record) ==
    IF i > Len(order) THEN Return(target_record, TRUE)
    ELSE LET target_field_name == order[i] IN
         IF HasObject(self.field_map, target_field_name)
         THEN TransformFromResolverFirst(self, order, i + 1, source_record,
                            Put(target_record, target_field_name,
                                Resolve(self.field_map[target_field_name], source_record)))
         ELSE IF HasObject(self.datasources, target_field_name)
         THEN LET got == lookup(self, target_field_name, source_record) IN
              IF got.kind = "raise" THEN got
              ELSE TransformFromResolverFirst(self, order, i + 1, source_record,
                                 Put(target_record, target_field_name, got.value))
         ELSE TransformFromResolverFirst(self, order, i + 1, source_record, target_record)

\* a variant of the loop of transform that skips a field whose lookup raises;
\* C8 must tell it from the loop of the code
RECURSIVE TransformFromSwallow(_, _, _, _, _)
TransformFromSwallow(self, order, i, source_record, target_record) ==
    IF i > Len(order) THEN Return(target_record, TRUE)
    ELSE LET target_field_name == order[i] IN
         IF HasObject(self.datasources, target_field_name)
         THEN LET got == lookup(self, target_field_name, source_record) IN
              IF got.kind = "raise"
              THEN TransformFromSwallow(self, order, i + 1, source_record, target_record)
              ELSE TransformFromSwallow(self, order, i + 1, source_record,
                                 Put(target_record, target_field_name, got.value))
         ELSE IF HasObject(self.field_map, target_field_name)
         THEN TransformFromSwallow(self, order, i + 1, source_record,
                            Put(target_record, target_field_name,
                                Resolve(self.field_map[target_field_name], source_record)))
         ELSE TransformFromSwallow(self, order, i + 1, source_record, target_record)

\* a variant of the loop that leaves out a field whose resolver yields None;
\* C19 must tell it from the code
RECURSIVE TransformFromSkipNull(_, _, _, _, _)
TransformFromSkipNull(self, order, i, source_record, target_record) ==
    IF i > Len(order) THEN Return(target_record, TRUE)
    ELSE LET target_field_name == order[i] IN
         IF HasObject(self.datasources, target_field_name)
         THEN LET got == lookup(self, target_field_name, source_record) IN
              IF got.kind = "raise" THEN got
              ELSE TransformFromSkipNull(self, order, i + 1, source_record,
                                         Put(target_record, target_field_name, got.value))
         ELSE IF /\ HasObject(self.field_map, target_field_name)
                 /\ Resolve(self.field_map[target_field_name], source_record) # NoneVal
         THEN TransformFromSkipNull(self, order, i + 1, source_record,
                                    Put(target_record, target_field_name,
                                        Resolve(self.field_map[target_field_name],
                                                source_record)))
         ELSE TransformFromSkipNull(self, order, i + 1, source_record, target_record)

\* a variant of the loop that calls lookup for every field without a
\* resolver; C20 must tell it from the code
RECURSIVE TransformFromLookupFirst(_, _, _, _, _)
TransformFromLookupFirst(self, order, i, source_record, target_record) ==
    IF i > Len(order) THEN Return(target_record, TRUE)
    ELSE LET target_field_name == order[i] IN
         IF \/ HasObject(self.datasources, target_field_name)
            \/ ~HasObject(self.field_map, target_field_name)
         THEN LET got == lookup(self, target_field_name, source_record) IN
              IF got.kind = "raise" THEN got
              ELSE TransformFromLookupFirst(self, order, i + 1, source_record,
                                            Put(target_record, target_field_name, got.value))
         ELSE TransformFromLookupFirst(self, order, i + 1, source_record,
                                       Put(target_record, target_field_name,
                                           Resolve(self.field_map[target_field_name],
                                                   source_record)))

\* the loop of RecordTransformer.transform over the target fields, taken in
\* the order the set yields them; an exception of lookup ends the call
RECURSIVE TransformFrom(_, _, _, _, _)
TransformFrom(self, order, i, source_record, target_record) ==
    IF i > Len(order) THEN Return(target_record, TRUE)
    ELSE LET target_field_name == order[i] IN
         IF HasObject(self.datasources, target_field_name)
         THEN LET got == lookup(self, target_field_name, source_record) IN
              IF got.kind = "raise" THEN got
              ELSE TransformFrom(self, order, i + 1, source_record,
                                 Put(target_record, target_field_name, got.value))
         ELSE IF HasObject(self.field_map, target_field_name)
         THEN LET source_field_resolver == self.field_map[target_field_name] IN
              TransformFrom(self, order, i + 1, source_record,
                            Put(target_record, target_field_name,
                                Resolve(source_field_resolver, source_record)))
         ELSE TransformFrom(self, order, i + 1, source_record, target_record)

\* a variant of transform that merges the extra fields after the target
\* fields are resolved; C2 must tell it from the code
transform_extras_last(self, source_record, kwargs, order) ==
    LET out == TransformFrom(self, order, 1, source_record, EmptyDict) IN
    [self |-> self,
     source_record |-> source_record,
     outcome |-> IF out.kind = "raise" THEN out
                 ELSE Return([k \in DOMAIN out.value \cup DOMAIN kwargs |->
                                 IF k \in DOMAIN kwargs THEN kwargs[k] ELSE out.value[k]],
                             TRUE)]

\* a variant of transform that fills the source record itself and returns
\* it; C3 must tell it from the code
transform_in_place(self, source_record, kwargs, order) ==
    LET out == TransformFrom(self, order, 1, source_record,
                             [k \in DOMAIN source_record \cup DOMAIN kwargs |->
                                 IF k \in DOMAIN kwargs THEN kwargs[k] ELSE source_record[k]])
    IN  [self |-> self,
         source_record |-> IF out.kind = "raise" THEN source_record ELSE out.value,
         outcome |-> [out EXCEPT !.fresh = FALSE]]

\* RecordTransformer.transform: the transformer and the source record after
\* the call, and the call's outcome.  target_record starts as a copy of kwargs.
transform(self, source_record, kwargs, order) ==
    [self |-> self,
     source_record |-> source_record,
     outcome |-> TransformFrom(self, order, 1, source_record,
                               [k \in DOMAIN kwargs |-> kwargs[k]])]

(***************************************************************************)
(* RecordTransformerBuilder.build.  The configuration of the requested map *)
(* is its lookup_source (here the datasource class it names) and its       *)
(* fields dict; field_order is the order in which the dict yields its keys.*)
(***************************************************************************)
MaxBuilds == 2

FieldConfigs ==
    {[source |-> "record", key |-> d, value |-> NoneVal] : d \in Designators}
    \cup {[source |-> "value", key |-> <<>>, value |-> v] : v \in ConstValues}
    \cup {[source |-> t, key |-> <<>>, value |-> NoneVal] : t \in {"lookup", "table"}}

MapConfigs ==
    {[lookup_source |-> c, fields |-> fs] :
        c \in DatasourceClasses,
        fs \in UNION {[ks -> FieldConfigs] : ks \in SUBSET TargetNames}}

\* RecordTransformerBuilder.load_datasource: klass(self._pmgr, **init_params),
\* a new instance of the configured class
load_datasource(src_name, instance_id) == Datasource(src_name, instance_id)

\* a variant of the loop body of build that leaves a field of an unknown
\* source type declared and unmapped; C9 must tell it from the code
BuildFieldLenient(transformer, fieldname, field_config, datasource) ==
    LET declared == add_target_field(transformer, fieldname).self IN
    IF field_config.source = "record"
    THEN map_source_to_target_field(declared, field_config.key, fieldname)
    ELSE IF field_config.source = "lookup"
    THEN register_datasource(declared, fieldname, datasource)
    ELSE IF field_config.source = "value"
    THEN map_const_to_target_field(declared, fieldname, field_config.value)
    ELSE Result(declared, Return(NoneVal, FALSE))

\* one pass of the loop body of build for fieldname
BuildField(transformer, fieldname, field_config, datasource) ==
    LET declared == add_target_field(transformer, fieldname).self IN
    IF field_config.source = "record"
    THEN map_source_to_target_field(declared, field_config.key, fieldname)
    ELSE IF field_config.source = "lookup"
    THEN register_datasource(declared, fieldname, datasource)
    ELSE IF field_config.source = "value"
    THEN map_const_to_target_field(declared, fieldname, field_config.value)
    ELSE Result(declared, Raise("Exception", <<"unrecognized source type", field_config.source>>))

RECURSIVE BuildFrom(_, _, _, _, _)
BuildFrom(transformer, fields, field_order, i, datasource) ==
    IF i > Len(field_order) THEN Return(transformer, TRUE)
    ELSE LET step == BuildField(transformer, field_order[i], fields[field_order[i]], datasource)
         IN  IF step.outcome.kind = "raise" THEN step.outcome
             ELSE BuildFrom(step.self, fields, field_order, i + 1, datasource)

\* RecordTransformerBuilder.build: the outcome (the transformer built, or the
\* exception) and the numbers of datasource instances and of transformers
\* after the call
build(map_config, field_order, n_instances, n_transformers) ==
    LET datasource == load_datasource(map_config.lookup_source, n_instances + 1)
        transformer == RecordTransformer_init
    IN  [outcome |-> BuildFrom(transformer, map_config.fields, field_order, 1, datasource),
         instances |-> n_instances + 1,
         transformers |-> n_transformers + 1]

(***************************************************************************)
(* The calls on a RecordTransformer                                        *)
(***************************************************************************)
\* datasource instances that exist before any build
Datasources == {Datasource(c, 0) : c \in DatasourceClasses}

Apply(res) ==
    /\ target_record_fields' = res.self.target_record_fields
    /\ datasources' = res.self.datasources
    /\ field_map' = res.self.field_map
    /\ value_map' = res.self.value_map
    /\ outcome' = res.outcome

AddTargetField ==
    \E n \in TargetNames :
        /\ call' = [op |-> "add_target_field", target_field_name |-> n]
        /\ Apply(add_target_field(Self, n))
        /\ UNCHANGED <<instances, transformers>>

MapSourceToTargetField ==
    \E d \in Designators, n \in TargetNames :
        /\ call' = [op |-> "map_source_to_target_field", target_field_name |-> n,
                    source_field_designator |-> d]
        /\ Apply(map_source_to_target_field(Self, d, n))
        /\ UNCHANGED <<instances, transformers>>

MapConstToTargetField ==
    \E n \in TargetNames, v \in ConstValues :
        /\ call' = [op |-> "map_const_to_target_field", target_field_name |-> n, value |-> v]
        /\ Apply(map_const_to_target_field(Self, n, v))
        /\ UNCHANGED <<instances, transformers>>

RegisterDatasource ==
    \E n \in TargetNames, ds \in Datasources :
        /\ call' = [op |-> "register_datasource", target_field_name |-> n, datasource |-> ds]
        /\ Apply(register_datasource(Self, n, ds))
        /\ UNCHANGED <<instances, transformers>>

Lookup ==
    \E n \in TargetNames, r \in SourceRecords :
        /\ call' = [op |-> "lookup", target_field_name |-> n, source_record |-> r]
        /\ outcome' = lookup(Self, n, r)
        /\ UNCHANGED <<xvars, instances, transformers>>

Transform ==
    \E r \in SourceRecords, kw \in Extras, o \in Orders(target_record_fields) :
        LET res == transform(Self, r, kw, o) IN
        /\ call' = [op |-> "transform", source_record |-> r, kwargs |-> kw,
                    source_record_after |-> res.source_record]
        /\ Apply(res)
        /\ UNCHANGED <<instances, transformers>>

Build ==
    /\ instances < MaxBuilds
    /\ \E c \in MapConfigs :
        \E o \in Orders(DOMAIN c.fields) :
            LET res == build(c, o, instances, transformers) IN
            /\ call' = [op |-> "build", map_config |-> c, instances |-> instances,
                        transformers |-> transformers]
            /\ outcome' = res.outcome
            /\ instances' = res.instances
            /\ transformers' = res.transformers
            /\ IF res.outcome.kind = "return"
               THEN /\ target_record_fields' = res.outcome.value.target_record_fields
                    /\ datasources' = res.outcome.value.datasources
                    /\ field_map' = res.outcome.value.field_map
                    /\ value_map' = res.outcome.value.value_map
               ELSE UNCHANGED xvars

(***************************************************************************)
(* ComplianceStatsProcessor                                                *)
(***************************************************************************)
MaxRecords == 3

\* records handed to the compliance processor: a field is absent, None, ''
\* or a non-empty string
StatsValues == {NoneVal, "", "x"}
StatsRecords == UNION {[ks -> StatsValues] : ks \in SUBSET SourceNames}

\* the required-field dicts, each as the sequence of (name, datatype) items
\* in the order the dict yields them
RequiredFieldDicts ==
    UNION {{[i \in DOMAIN o |-> <<o[i], "string">>] : o \in Orders(ks)} :
              ks \in SUBSET SourceNames}

\* the schemas of a record type: the fields in the order the schema document
\* lists them, each required or not
SchemaConfigs ==
    UNION {{[i \in DOMAIN o |-> [name |-> o[i], required |-> q[o[i]], type |-> "string"]] :
               o \in Orders(ks), q \in [ks -> BOOLEAN]} : ks \in SUBSET SourceNames}

\* the required_fields dict get_schema_compliance_stats builds from a schema:
\* the names with required == True; a dict yields its items in an order of
\* its own, so every order of them is possible
required_fields_of(schema) ==
    {rf \in RequiredFieldDicts :
        {rf[i][1] : i \in DOMAIN rf} =
           {schema[i].name : i \in {j \in DOMAIN schema : schema[j].required}}}

Stats == [required_fields |-> required_fields,
          valid_record_count |-> valid_record_count,
          invalid_record_count |-> invalid_record_count,
          error_table |-> error_table,
          record_index |-> record_index]

\* ComplianceStatsProcessor.__init__
ComplianceStatsProcessor_init(required_record_fields) ==
    [required_fields |-> required_record_fields,
     valid_record_count |-> 0,
     invalid_record_count |-> 0,
     error_table |-> [k \in {} |-> <<>>],
     record_index |-> 0]

\* ComplianceStatsProcessor.match_format
match_format(obj, type_name) == TRUE

\* the loop of _process over the required fields: the (name, kind) error of
\* the first field that fails, or <<>> when every field passes
RECURSIVE CheckFrom(_, _, _)
CheckFrom(required, i, record_dict) ==
    IF i > Len(required) THEN <<>>
    ELSE LET name == required[i][1] IN
         IF Get(record_dict, name) = NoneVal THEN <<name, "null">>
         ELSE IF ~match_format(record_dict[name], "string") THEN <<name, "invalid_type">>
         ELSE CheckFrom(required, i + 1, record_dict)

\* a variant of _process that counts every record as valid, and a record in
\* error as invalid too; C10 must tell it from the code
ComplianceStatsProcessor_process_both(self, record_dict) ==
    LET index == self.record_index + 1
        found == CheckFrom(self.required_fields, 1, record_dict)
        error == found # <<>>
    IN  [self |-> [self EXCEPT
                     !.record_index = index,
                     !.error_table = IF error THEN Put(@, index, found) ELSE @,
                     !.invalid_record_count = IF error THEN @ + 1 ELSE @,
                     !.valid_record_count = @ + 1],
         outcome |-> Return(record_dict, FALSE)]

\* ComplianceStatsProcessor._process
ComplianceStatsProcessor_process(self, record_dict) ==
    LET index == self.record_index + 1
        found == CheckFrom(self.required_fields, 1, record_dict)
        error == found # <<>>
    IN  [self |-> [self EXCEPT
                     !.record_index = index,
                     !.error_table = IF error THEN Put(@, index, found) ELSE @,
                     !.invalid_record_count = IF error THEN @ + 1 ELSE @,
                     !.valid_record_count = IF error THEN @ ELSE @ + 1],
         outcome |-> Return(record_dict, FALSE)]

\* the properties total_records, valid_records, invalid_records
total_records(self) == self.valid_record_count + self.invalid_record_count
valid_records(self) == self.valid_record_count
invalid_records(self) == self.invalid_record_count

\* ComplianceStatsProcessor.get_stats
get_stats(self) ==
    [invalid_records |-> invalid_records(self),
     valid_records |-> valid_records(self),
     total_records |-> total_records(self),
     errors_by_record |-> self.error_table]

ApplyStats(self) ==
    /\ required_fields' = self.required_fields
    /\ valid_record_count' = self.valid_record_count
    /\ invalid_record_count' = self.invalid_record_count
    /\ error_table' = self.error_table
    /\ record_index' = self.record_index

Process ==
    /\ record_index < MaxRecords
    /\ \E r \in StatsRecords :
        LET res == ComplianceStatsProcessor_process(Stats, r) IN
        /\ stats_call' = [op |-> "_process", record_dict |-> r, before |-> Stats]
        /\ ApplyStats(res.self)
        /\ stats_outcome' = res.outcome
        /\ UNCHANGED <<schema_config, pipeline, ovars>>

GetStats ==
    /\ stats_call' = [op |-> "get_stats", before |-> Stats]
    /\ stats_outcome' = Return(get_stats(Stats), TRUE)
    /\ UNCHANGED <<required_fields, valid_record_count, invalid_record_count,
                   error_table, record_index, schema_config, pipeline, ovars>>

(***************************************************************************)
(* Specifications                                                          *)
(***************************************************************************)
InitTransformer ==
    /\ target_record_fields = RecordTransformer_init.target_record_fields
    /\ datasources = RecordTransformer_init.datasources
    /\ field_map = RecordTransformer_init.field_map
    /\ value_map = RecordTransformer_init.value_map
    /\ call = NoCall
    /\ outcome = NoOutcome
    /\ instances = 0
    /\ transformers = 1

InitStats(required_record_fields) ==
    LET self == ComplianceStatsProcessor_init(required_record_fields) IN
    /\ required_fields = self.required_fields
    /\ valid_record_count = self.valid_record_count
    /\ invalid_record_count = self.invalid_record_count
    /\ error_table = self.error_table
    /\ record_index = self.record_index
    /\ stats_call = NoCall
    /\ stats_outcome = NoOutcome

\* Dictionary2CSVProcessor.__init__
InitOutput(target_header_fields) ==
    /\ header_fields = target_header_fields
    /\ record_count = 0
    /\ stdout = <<>>

\* a transformer wired by direct calls
Init ==
    /\ InitTransformer /\ InitStats(<<>>) /\ schema_config = <<>> /\ pipeline = <<>>
    /\ InitOutput(<<>>)

Next ==
    \/ (AddTargetField /\ UNCHANGED cvars)
    \/ (MapSourceToTargetField /\ UNCHANGED cvars)
    \/ (MapConstToTargetField /\ UNCHANGED cvars)
    \/ (RegisterDatasource /\ UNCHANGED cvars)
    \/ (Lookup /\ UNCHANGED cvars)
    \/ (Transform /\ UNCHANGED cvars)

Spec == Init /\ [][Next]_vars

\* transformers wired by the builder
BuildNext ==
    \/ (Build /\ UNCHANGED cvars)
    \/ (Transform /\ UNCHANGED cvars)

BuildSpec == Init /\ [][BuildNext]_vars

\* a compliance processor for the required fields of a schema, fed records
StatsInit ==
    /\ InitTransformer
    /\ pipeline = <<>>
    /\ InitOutput(<<>>)
    /\ \E sc \in SchemaConfigs :
          /\ schema_config = sc
          /\ \E rf \in required_fields_of(sc) : InitStats(rf)

StatsNext ==
    \/ (Process /\ UNCHANGED tvars)
    \/ (GetStats /\ UNCHANGED tvars)

StatsSpec == StatsInit /\ [][StatsNext]_vars

\* a chain resolver built from any designator and applied to a source record
MaxDesignator == 3

DesignatorChars == {"a", "b", "|"}

AllDesignators == UNION {[1..n -> DesignatorChars] : n \in 0..MaxDesignator}

ResolverResolve ==
    \E d \in AllDesignators, r \in SourceRecords :
        LET resolver == FieldValueResolver(d) IN
        /\ call' = [op |-> "resolve", field_name_string |-> d, resolver |-> resolver,
                    source_record |-> r]
        /\ outcome' = Return(FieldValueResolver_resolve(resolver, r), FALSE)
        /\ UNCHANGED <<xvars, instances, transformers>>

ResolverNext == ResolverResolve /\ UNCHANGED cvars

ResolverSpec == Init /\ [][ResolverNext]_vars

(***************************************************************************)
(* Properties of RecordTransformer.transform                               *)
(***************************************************************************)
Transformed == call.op = "transform" /\ outcome.kind = "return"

\* the value the lookup operation of the datasource registered for f yields
DatasourceValue(f, source_record) ==
    DatasourceLookup(datasources[f], "lookup_" \o f, f, source_record, value_map).value

\* target fields that transform resolves: those with a datasource or a resolver
ResolvedFields ==
    {f \in target_record_fields : f \in DOMAIN datasources \/ f \in DOMAIN field_map}

\* C1: transform resolves every declared target field by precedence: with a
\* datasource registered the output value is the result of the datasource's
\* lookup operation, also when a resolver is registered too; otherwise, with
\* a resolver registered, it is the resolver's result on the source record;
\* otherwise transform gives the field no value (it is a key of the output
\* only as an extra field of the caller) and does not fail on it.
C1_ResolutionPrecedence ==
    /\ Transformed =>
          \A f \in target_record_fields :
             IF f \in DOMAIN datasources
             THEN /\ f \in DOMAIN outcome.value
                  /\ outcome.value[f] = DatasourceValue(f, call.source_record)
             ELSE IF f \in DOMAIN field_map
             THEN /\ f \in DOMAIN outcome.value
                  /\ outcome.value[f] = Resolve(field_map[f], call.source_record)
             ELSE /\ f \in DOMAIN outcome.value <=> f \in DOMAIN call.kwargs
                  /\ f \in DOMAIN call.kwargs => outcome.value[f] = call.kwargs[f]
    /\ (call.op = "transform" /\ target_record_fields \cap DOMAIN datasources = {})
          => outcome.kind = "return"

\* a transform returned where f has both a datasource and a resolver, whose
\* values differ, and g is declared with neither
C1_Witness ==
    /\ Transformed
    /\ "f" \in DOMAIN datasources /\ "f" \in DOMAIN field_map
    /\ Resolve(field_map["f"], call.source_record) # outcome.value["f"]
    /\ "g" \in target_record_fields \ ResolvedFields
    /\ "g" \notin DOMAIN outcome.value

\* C2: every extra field of the caller is a key of the output; it keeps the
\* caller's value unless a declared target field of the same name is resolved
\* by a datasource or a resolver, and then holds the resolved value; with no
\* declared target field the output equals the extra fields.
C2_ExtraFields ==
    Transformed =>
       /\ \A k \in DOMAIN call.kwargs :
             /\ k \in DOMAIN outcome.value
             /\ (outcome.value[k] # call.kwargs[k]) <=> (k \in ResolvedFields)
       /\ target_record_fields = {} => outcome.value = call.kwargs

\* a transform returned whose extra field f was overwritten and whose extra
\* field k was kept
C2_Witness ==
    /\ Transformed
    /\ DOMAIN call.kwargs = {"f", "k"}
    /\ "f" \in ResolvedFields
    /\ outcome.value["f"] # "kw" /\ outcome.value["k"] = "kw"

\* target fields mapped only to a constant
ConstOnlyFields ==
    {f \in (target_record_fields \cap DOMAIN field_map) \ DOMAIN datasources :
        field_map[f].kind = "const"}

\* C3: a transform call changes neither the source record nor the target
\* field set, field_map, datasources or the value map; what it returns is a
\* new mapping; and a target field mapped only to a constant holds that
\* constant in the output of every call.
C3_TransformStateless ==
    [][call'.op = "transform" =>
          /\ UNCHANGED xvars
          /\ call'.source_record_after = call'.source_record
          /\ outcome'.kind = "return" =>
                /\ outcome'.fresh
                /\ \A f \in ConstOnlyFields : outcome'.value[f] = field_map[f].value]_vars

\* a transform returned on a transformer with a constant-only field, a
\* chain-mapped field and a non-empty source record
C3_Witness ==
    /\ Transformed
    /\ ConstOnlyFields # {}
    /\ \E f \in DOMAIN field_map : field_map[f].kind = "field"
    /\ DOMAIN call.source_record = SourceNames

(***************************************************************************)
(* Properties of the chain resolver                                        *)
(***************************************************************************)
\* the positions of the delimiter in a designator, and the position of the
\* k-th one (0 before the first, one past the end after the last)
DelimiterPositions(d) == {i \in 1..Len(d) : d[i] = "|"}

Boundary(d, k) ==
    IF k = 0 THEN 0
    ELSE IF k > Cardinality(DelimiterPositions(d)) THEN Len(d) + 1
    ELSE CHOOSE p \in DelimiterPositions(d) :
            Cardinality({q \in DelimiterPositions(d) : q < p}) = k - 1

RECURSIVE Concat(_)
Concat(chars) == IF chars = <<>> THEN "" ELSE Head(chars) \o Concat(Tail(chars))

\* the k-th candidate name a designator declares: the characters between its
\* (k-1)-th and k-th delimiter
Candidate(d, k) == Concat(SubSeq(d, Boundary(d, k - 1) + 1, Boundary(d, k) - 1))

CandidateCount(d) == Cardinality(DelimiterPositions(d)) + 1

\* the candidates whose value in the record is present and non-empty
Matching(d, r) ==
    {k \in 1..CandidateCount(d) :
        Candidate(d, k) \in DOMAIN r /\ r[Candidate(d, k)] # "" /\ r[Candidate(d, k)] # NoneVal}

\* C4: a chain resolver built from a pipe-delimited designator returns the
\* source record's value for the first candidate, in the declared order,
\* whose value is present and non-empty (an empty string falls through to
\* the next candidate), and returns None, without failing, when there is none.
C4_ChainResolver ==
    call.op = "resolve" =>
       LET d == call.field_name_string
           r == call.source_record
       IN  /\ outcome.kind = "return"
           /\ IF Matching(d, r) = {} THEN outcome.value = NoneVal
              ELSE LET first == CHOOSE k \in Matching(d, r) : \A j \in Matching(d, r) : k <= j
                   IN  outcome.value = r[Candidate(d, first)]

\* the resolver for 'a|b' applied to {a: '', b: 'y'} fell through to b
C4_Witness ==
    /\ call.op = "resolve"
    /\ call.field_name_string = <<"a", "|", "b">>
    /\ call.source_record = [k \in {"a", "b"} |-> IF k = "a" THEN "" ELSE "y"]
    /\ outcome.value = "y"

(***************************************************************************)
(* Properties of the mutators of RecordTransformer                         *)
(***************************************************************************)
MapOps == {"map_source_to_target_field", "map_const_to_target_field"}
NamedOps == MapOps \cup {"register_datasource"}

\* C5: map_source_to_target_field, map_const_to_target_field and
\* register_datasource, called with a name that was not passed to
\* add_target_field before, raise (the two map_* methods a
\* NoSuchTargetFieldException) and leave the target field set, field_map,
\* datasources and the value map as they were.
C5_UndeclaredTargetFails ==
    [][(call'.op \in NamedOps /\ call'.target_field_name \notin target_record_fields) =>
          /\ outcome'.kind = "raise"
          /\ call'.op \in MapOps =>
                /\ outcome'.exc = "NoSuchTargetFieldException"
                /\ outcome'.args = <<call'.target_field_name>>
          /\ UNCHANGED xvars]_vars

\* map_const_to_target_field raised on the undeclared g while f is declared
\* and mapped
C5_Witness ==
    /\ call.op = "map_const_to_target_field"
    /\ call.target_field_name = "g"
    /\ outcome.kind = "raise"
    /\ target_record_fields = {"f"}
    /\ "f" \in DOMAIN field_map

\* C6: every key of field_map and every key of datasources is a declared
\* target field.
C6_KeysDeclared ==
    /\ DOMAIN field_map \subseteq target_record_fields
    /\ DOMAIN datasources \subseteq target_record_fields

\* register_datasource failed on an undeclared field of a transformer that
\* has a resolver and a datasource
C6_Witness ==
    /\ call.op = "register_datasource"
    /\ outcome.kind = "raise"
    /\ DOMAIN field_map # {}
    /\ DOMAIN datasources # {}

InBoth == DOMAIN field_map \cap DOMAIN datasources

\* C7 as claimed: a field name appears in at most one of field_map and
\* datasources.
C7_AtMostOne == InBoth = {}

\* C7, amended: the mutators do not keep field_map and datasources disjoint.
\* A field name comes to be in both exactly by a map_* call that returns for
\* a field that has a datasource, or a register_datasource call that returns
\* for a field that has a resolver; no call takes a name out of either.
C7_BothByTwoCalls ==
    [][/\ DOMAIN field_map \subseteq DOMAIN field_map'
       /\ DOMAIN datasources \subseteq DOMAIN datasources'
       /\ \A f \in TargetNames :
             (f \in InBoth' /\ f \notin InBoth) <=>
                /\ call'.op \in NamedOps
                /\ call'.target_field_name = f
                /\ outcome'.kind = "return"
                /\ \/ call'.op \in MapOps /\ f \in DOMAIN datasources \ DOMAIN field_map
                   \/ call'.op = "register_datasource" /\ f \in DOMAIN field_map \ DOMAIN datasources
      ]_vars

\* register_datasource returned for a field that has a resolver
C7_Witness ==
    /\ call.op = "register_datasource"
    /\ outcome.kind = "return"
    /\ call.target_field_name \in InBoth

(***************************************************************************)
(* Properties of resolution errors                                         *)
(***************************************************************************)
\* the exception the lookup for a field with datasource ds ends in, or a
\* return outcome when it ends in none
LookupExpected(f, ds, source_record) ==
    IF ("lookup_" \o f) \notin LookupMethods(ds.cls)
    THEN Raise("NoSuchLookupMethodException", <<ds.cls, "lookup_" \o f>>)
    ELSE DatasourceLookup(ds, "lookup_" \o f, f, source_record, value_map)

\* the target fields whose resolution fails for a source record
FailingFields(source_record) ==
    {f \in target_record_fields \cap DOMAIN datasources :
        LookupExpected(f, datasources[f], source_record).kind = "raise"}

\* C8: lookup for a field without a registered datasource raises
\* NoDatasourceForFieldException; lookup for a field whose datasource has no
\* lookup_<field> operation raises NoSuchLookupMethodException with the
\* datasource's class name and that operation name; and transform, when the
\* resolution of a field fails, raises that field's error and returns no
\* record.
C8_ResolutionErrors ==
    /\ call.op = "lookup" =>
          LET f == call.target_field_name IN
          IF f \notin DOMAIN datasources
          THEN outcome = Raise("NoDatasourceForFieldException", <<f>>)
          ELSE outcome = LookupExpected(f, datasources[f], call.source_record)
    /\ call.op = "transform" =>
          LET failing == FailingFields(call.source_record) IN
          /\ outcome.kind = "raise" <=> failing # {}
          /\ outcome.kind = "raise" =>
                /\ \E f \in failing :
                      outcome = LookupExpected(f, datasources[f], call.source_record)
                /\ outcome.value = NoneVal

\* transform raised the NoSuchLookupMethodException of g, whose datasource
\* has no lookup_g, while f has a resolver
C8_Witness ==
    /\ call.op = "transform"
    /\ outcome = Raise("NoSuchLookupMethodException", <<"PeerSource", "lookup_g">>)
    /\ "f" \in DOMAIN field_map \ DOMAIN datasources

(***************************************************************************)
(* Properties of RecordTransformerBuilder.build                            *)
(***************************************************************************)
KnownSourceTypes == {"record", "lookup", "value"}

\* C9: build creates one datasource instance and one transformer; when every
\* configured field has a source of record, lookup or value it returns a
\* transformer whose target fields are the configured fields, a record field
\* mapped to the chain resolver of its key, a value field to the constant
\* resolver of its value, and every lookup field registered with the one
\* datasource instance the call created; with any other source it raises and
\* returns no transformer.
C9_Build ==
    call.op = "build" =>
       LET fields == call.map_config.fields
           made == Datasource(call.map_config.lookup_source, instances)
       IN  /\ instances = call.instances + 1
           /\ transformers = call.transformers + 1
           /\ IF \A f \in DOMAIN fields : fields[f].source \in KnownSourceTypes
              THEN /\ outcome.kind = "return"
                   /\ outcome.value = Self
                   /\ target_record_fields = DOMAIN fields
                   /\ \A f \in DOMAIN fields :
                         /\ fields[f].source = "record" =>
                               /\ f \notin DOMAIN datasources
                               /\ f \in DOMAIN field_map
                               /\ field_map[f] = FieldValueResolver(fields[f].key)
                         /\ fields[f].source = "value" =>
                               /\ f \notin DOMAIN datasources
                               /\ f \in DOMAIN field_map
                               /\ field_map[f] = ConstValueResolver(fields[f].value)
                         /\ fields[f].source = "lookup" =>
                               /\ f \notin DOMAIN field_map
                               /\ f \in DOMAIN datasources
                               /\ datasources[f] = made
              ELSE /\ outcome.kind = "raise"
                   /\ outcome.value = NoneVal

\* the second build returned a transformer with a chain-mapped field and a
\* lookup field
C9_Witness ==
    /\ call.op = "build"
    /\ outcome.kind = "return"
    /\ instances = 2
    /\ DOMAIN datasources # {}
    /\ \E f \in DOMAIN field_map : field_map[f].kind = "field"

(***************************************************************************)
(* Properties of ComplianceStatsProcessor                                  *)
(***************************************************************************)
\* C10: a processed record increments exactly one of the valid and invalid
\* counters by one and leaves the other as it was, so after n records
\* total_records = valid_records + invalid_records = n; and get_stats
\* reports these counters.
C10_ExactlyOneCounter ==
    /\ stats_call.op = "_process" =>
          LET before == stats_call.before IN
          \/ /\ valid_record_count = before.valid_record_count + 1
             /\ invalid_record_count = before.invalid_record_count
          \/ /\ valid_record_count = before.valid_record_count
             /\ invalid_record_count = before.invalid_record_count + 1
    /\ total_records(Stats) = valid_record_count + invalid_record_count
    /\ total_records(Stats) = record_index
    /\ stats_call.op = "get_stats" =>
          /\ stats_outcome.value.total_records = valid_record_count + invalid_record_count
          /\ stats_outcome.value.valid_records = valid_record_count
          /\ stats_outcome.value.invalid_records = invalid_record_count

\* get_stats was read after two records, one counted valid and one invalid
C10_Witness ==
    /\ stats_call.op = "get_stats"
    /\ valid_record_count = 1
    /\ invalid_record_count = 1
    /\ stats_outcome.value.total_records = 2

\* the positions, in the schema document, of the required fields a record
\* lacks (the field is absent or None)
Lacking(record_dict) ==
    {i \in DOMAIN schema_config :
        schema_config[i].required /\ Get(record_dict, schema_config[i].name) = NoneVal}

\* the required fields, in the order the processor checks them, that a
\* record lacks
LackingChecked(record_dict) ==
    {i \in DOMAIN required_fields : Get(record_dict, required_fields[i][1]) = NoneVal}

Least(S) == CHOOSE i \in S : \A j \in S : i <= j

\* C11: the error ledger has one entry per invalid record and none for a
\* valid one: its keys are the 1-based positions of the records counted
\* invalid, its size is the invalid count, and the entry of a record is
\* (f, 'null') for the first required field f, in schema order, that the
\* record lacks.
C11_Ledger ==
    /\ Cardinality(DOMAIN error_table) = invalid_record_count
    /\ DOMAIN error_table \subseteq 1..record_index
    /\ stats_call.op = "_process" =>
          LET before == stats_call.before
              lacking == Lacking(stats_call.record_dict)
          IN  /\ record_index = before.record_index + 1
              /\ \A i \in DOMAIN before.error_table :
                    i \in DOMAIN error_table /\ error_table[i] = before.error_table[i]
              /\ IF lacking = {}
                 THEN /\ record_index \notin DOMAIN error_table
                      /\ invalid_record_count = before.invalid_record_count
                 ELSE /\ record_index \in DOMAIN error_table
                      /\ error_table[record_index] = <<schema_config[Least(lacking)].name, "null">>
                      /\ invalid_record_count = before.invalid_record_count + 1

\* C11 with the order the processor checks the fields in, that of its
\* required_fields dict, in place of the schema's order
C11_LedgerInDictOrder ==
    /\ Cardinality(DOMAIN error_table) = invalid_record_count
    /\ DOMAIN error_table \subseteq 1..record_index
    /\ stats_call.op = "_process" =>
          LET before == stats_call.before
              lacking == LackingChecked(stats_call.record_dict)
          IN  /\ record_index = before.record_index + 1
              /\ \A i \in DOMAIN before.error_table :
                    i \in DOMAIN error_table /\ error_table[i] = before.error_table[i]
              /\ IF lacking = {}
                 THEN /\ record_index \notin DOMAIN error_table
                      /\ invalid_record_count = before.invalid_record_count
                 ELSE /\ record_index \in DOMAIN error_table
                      /\ error_table[record_index] = <<required_fields[Least(lacking)][1], "null">>
                      /\ invalid_record_count = before.invalid_record_count + 1

\* the required fields a record holds as an empty string
EmptyRequired(record_dict) ==
    {i \in DOMAIN required_fields :
        /\ required_fields[i][1] \in DOMAIN record_dict
        /\ record_dict[required_fields[i][1]] = ""}

\* C12: an empty string in a required field counts as absent: a record whose
\* required field is present but empty is counted invalid and the ledger
\* holds (field, 'null') under the record's index.
C12_EmptyCountsAsAbsent ==
    (stats_call.op = "_process" /\ EmptyRequired(stats_call.record_dict) # {}) =>
       /\ invalid_record_count = stats_call.before.invalid_record_count + 1
       /\ valid_record_count = stats_call.before.valid_record_count
       /\ record_index \in DOMAIN error_table
       /\ error_table[record_index][2] = "null"

(***************************************************************************)
(* The processing pipeline: DataProcessor and its subclasses.  A processor *)
(* is the sequence of the classes of its stages, itself first and then its *)
(* upstream processors, the innermost last.  env holds the objects the     *)
(* stages keep: the compliance statistics and the transformer.             *)
(***************************************************************************)
MaxValueLen == 3

\* the characters of the values of a record that is read from a file
Whitespace == {" "}
ValueAlphabet == {" ", "x"}
CharSeqs == UNION {[1..n -> ValueAlphabet] : n \in 0..MaxValueLen}

\* str.strip() on the characters of a string
RECURSIVE LStrip(_)
LStrip(chars) ==
    IF chars # <<>> /\ Head(chars) \in Whitespace THEN LStrip(Tail(chars)) ELSE chars

RECURSIVE RStrip(_)
RStrip(chars) ==
    IF chars # <<>> /\ chars[Len(chars)] \in Whitespace
    THEN RStrip(SubSeq(chars, 1, Len(chars) - 1))
    ELSE chars

\* value.strip(): the string is taken apart into its characters; the other
\* strings of the model ('y', 'active', 'EAST', 'kw') hold no whitespace
Strip(value) ==
    IF \E c \in CharSeqs : Concat(c) = value
    THEN Concat(RStrip(LStrip(CHOOSE c \in CharSeqs : Concat(c) = value)))
    ELSE value

\* a console stage that would hand on a copy of the record
ConsoleProcessor_process_copy(record) ==
    [outcome |-> Return(record, TRUE), printed |-> <<[jsonpretty |-> record]>>]

\* ConsoleProcessor._process: prints the rendering of the record
ConsoleProcessor_process(record) ==
    [outcome |-> Return(record, FALSE), printed |-> <<[jsonpretty |-> record]>>]

\* a whitespace stage that would trim the leading whitespace only
WhitespaceCleanupProcessor_process_leading(record) ==
    [outcome |-> IF \E key \in DOMAIN record : record[key] = NoneVal
                 THEN Raise("AttributeError", <<"NoneType", "strip">>)
                 ELSE Return([key \in DOMAIN record |->
                                 IF \E c \in CharSeqs : Concat(c) = record[key]
                                 THEN Concat(LStrip(CHOOSE c \in CharSeqs :
                                                       Concat(c) = record[key]))
                                 ELSE record[key]], TRUE),
     record |-> record]

\* WhitespaceCleanupProcessor._process: the outcome, and the record it was
\* given as the call leaves it
WhitespaceCleanupProcessor_process(record) ==
    [outcome |-> IF \E key \in DOMAIN record : record[key] = NoneVal
                 THEN Raise("AttributeError", <<"NoneType", "strip">>)
                 ELSE Return([key \in DOMAIN record |-> Strip(record[key])], TRUE),
     record |-> record]

\* TransformProcessor._process
TransformProcessor_process(transformer, data_dict, order) ==
    transform(transformer, data_dict, EmptyDict, order).outcome

StageClasses == {"ConsoleProcessor", "WhitespaceCleanupProcessor", "TransformProcessor",
                 "ComplianceStatsProcessor"}

\* self._process(data), dispatched on the stage's class: the outcome, the
\* objects after the call and what was printed
StageProcess(stage, data, env, order) ==
    IF stage = "ConsoleProcessor"
    THEN [ConsoleProcessor_process(data) EXCEPT !.outcome = @] @@ [env |-> env]
    ELSE IF stage = "WhitespaceCleanupProcessor"
    THEN [outcome |-> WhitespaceCleanupProcessor_process(data).outcome, printed |-> <<>>,
          env |-> env]
    ELSE IF stage = "TransformProcessor"
    THEN [outcome |-> TransformProcessor_process(env.transformer, data, order),
          printed |-> <<>>, env |-> env]
    ELSE LET res == ComplianceStatsProcessor_process(env.stats, data) IN
         [outcome |-> res.outcome, printed |-> <<>>,
          env |-> [env EXCEPT !.stats = res.self]]

\* a process that would run the stage's own step before its upstream
RECURSIVE DataProcessor_process_own_first(_, _, _, _)
DataProcessor_process_own_first(processor, record, env, order) ==
    LET step == StageProcess(Head(processor), record, env, order)
        made == <<[stage |-> Head(processor), input |-> record, outcome |-> step.outcome]>>
    IN  IF Len(processor) = 1 \/ step.outcome.kind = "raise"
        THEN [outcome |-> step.outcome, env |-> step.env, trace |-> made,
              printed |-> step.printed]
        ELSE LET up == DataProcessor_process_own_first(Tail(processor), step.outcome.value,
                                                       step.env, order)
             IN  [outcome |-> up.outcome, env |-> up.env, trace |-> made \o up.trace,
                  printed |-> step.printed \o up.printed]

\* DataProcessor.process: the upstream processor's process first, when there
\* is one, then the stage's own _process on what it returned.  trace lists
\* the _process calls made, with their input and outcome.
RECURSIVE DataProcessor_process(_, _, _, _)
DataProcessor_process(processor, record, env, order) ==
    LET up == IF Len(processor) > 1
              THEN DataProcessor_process(Tail(processor), record, env, order)
              ELSE [outcome |-> Return(record, FALSE), env |-> env, trace |-> <<>>,
                    printed |-> <<>>]
    IN  IF up.outcome.kind = "raise" THEN up
        ELSE LET data == up.outcome.value
                 step == StageProcess(Head(processor), data, up.env, order)
             IN  [outcome |-> step.outcome,
                  env |-> step.env,
                  trace |-> Append(up.trace, [stage |-> Head(processor), input |-> data,
                                              outcome |-> step.outcome]),
                  printed |-> up.printed \o step.printed]

Env == [stats |-> Stats, transformer |-> Self]

(***************************************************************************)
(* CSVFileDataExtractor.extract and get_schema_compliance_stats.  The file *)
(* is the sequence of the records csv.DictReader yields: each has the keys *)
(* of the header, with None for a cell the row does not have.              *)
(***************************************************************************)
MaxBatch == 2

ScanValues == {NoneVal, "", " x"}

Batches ==
    UNION {UNION {[1..n -> [header -> ScanValues]] : n \in 0..MaxBatch} :
              header \in SUBSET SourceNames}

\* the loop of extract from record i on; no load_function is passed
RECURSIVE ExtractFrom(_, _, _, _, _, _)
ExtractFrom(processor, records, i, lines_read, max_lines, env) ==
    IF i > Len(records) THEN [outcome |-> Return(NoneVal, FALSE), env |-> env]
    ELSE LET got == DataProcessor_process(processor, records[i], env, <<>>) IN
         IF got.outcome.kind = "raise" THEN [outcome |-> got.outcome, env |-> got.env]
         ELSE IF max_lines > 0 /\ lines_read + 1 = max_lines
         THEN [outcome |-> Return(NoneVal, FALSE), env |-> got.env]
         ELSE ExtractFrom(processor, records, i + 1, lines_read + 1, max_lines, got.env)

\* CSVFileDataExtractor.extract
extract(processor, records, max_lines, env) ==
    IF max_lines = 0 THEN [outcome |-> Return(NoneVal, FALSE), env |-> env]
    ELSE ExtractFrom(processor, records, 1, 0, max_lines, env)

\* get_schema_compliance_stats: the statistics returned, or the exception,
\* and the compliance processor as the call leaves it
get_schema_compliance_stats(records, required) ==
    LET cstats_proc == <<"ComplianceStatsProcessor", "WhitespaceCleanupProcessor">>
        env == [stats |-> ComplianceStatsProcessor_init(required),
                transformer |-> RecordTransformer_init]
        done == extract(cstats_proc, records, -1, env)
    IN  [outcome |-> IF done.outcome.kind = "raise" THEN done.outcome
                     ELSE Return(get_stats(done.env.stats), TRUE),
         stats |-> done.env.stats]

Scan ==
    \E records \in Batches :
        LET res == get_schema_compliance_stats(records, required_fields) IN
        /\ stats_call' = [op |-> "get_schema_compliance_stats", records |-> records]
        /\ ApplyStats(res.stats)
        /\ stats_outcome' = res.outcome
        /\ UNCHANGED <<schema_config, pipeline, ovars>>

ScanNext == Scan /\ UNCHANGED tvars

\* schema compliance scans of files
ScanSpec == StatsInit /\ [][ScanNext]_vars

\* C13: in the schema-compliance scan a record with a null or absent required
\* field raises no error and is counted invalid, and every record of the
\* batch is processed: the scan returns with total_records equal to the
\* number of records.
C13_ScanNeverAborts ==
    stats_call.op = "get_schema_compliance_stats" =>
       /\ stats_outcome.kind = "return"
       /\ total_records(Stats) = Len(stats_call.records)
       /\ invalid_record_count =
             Cardinality({i \in DOMAIN stats_call.records : Lacking(stats_call.records[i]) # {}})

\* C13 for the files in which every cell is a string: a required field the
\* header does not have makes a record invalid without an error
C13_ScanOfStrings ==
    (/\ stats_call.op = "get_schema_compliance_stats"
     /\ \A i \in DOMAIN stats_call.records :
           \A k \in DOMAIN stats_call.records[i] : stats_call.records[i][k] # NoneVal) =>
       /\ stats_outcome.kind = "return"
       /\ total_records(Stats) = Len(stats_call.records)
       /\ invalid_record_count =
             Cardinality({i \in DOMAIN stats_call.records : Lacking(stats_call.records[i]) # {}})

(***************************************************************************)
(* Pipelines of processors: a chain of stages is built once and records    *)
(* are fed to its outermost stage with process(record).                    *)
(***************************************************************************)
MaxStages == 3

\* the processors that can be built: each stage wraps the next one
Processors ==
    {p \in UNION {[1..n -> StageClasses] : n \in 1..MaxStages} :
        \A i, j \in DOMAIN p : p[i] = p[j] => i = j}

\* the transformers a TransformProcessor is given, wired by the mutators
PipelineTransformers ==
    LET t0 == RecordTransformer_init
        f  == add_target_field(t0, "f").self
        t1 == map_source_to_target_field(f, <<"a", "|", "b">>, "f").self
        t2 == map_const_to_target_field(add_target_field(t1, "g").self, "g", "active").self
        t3 == register_datasource(f, "f", Datasource("StubSource", 0)).self
    IN  {t0, t1, t2, t3}

\* the schemas of the compliance stage: no field, or one required field
PipelineSchemas ==
    {sc \in SchemaConfigs : Len(sc) <= 1 /\ \A i \in DOMAIN sc : sc[i].required}

PipelineRecords == UNION {[header -> ScanValues] : header \in SUBSET SourceNames}

\* processor.process(record) on the pipeline
Run ==
    /\ record_index < MaxRecords
    /\ \E record \in PipelineRecords, o \in Orders(target_record_fields) :
          LET res == DataProcessor_process(pipeline, record, Env, o) IN
          /\ stats_call' = [op |-> "process", record |-> record, trace |-> res.trace,
                            printed |-> res.printed, before |-> Stats]
          /\ stats_outcome' = res.outcome
          /\ ApplyStats(res.env.stats)
          /\ UNCHANGED <<schema_config, pipeline, ovars>>

PipelineInit ==
    /\ \E t \in PipelineTransformers :
          /\ target_record_fields = t.target_record_fields
          /\ datasources = t.datasources
          /\ field_map = t.field_map
          /\ value_map = t.value_map
    /\ call = NoCall
    /\ outcome = NoOutcome
    /\ instances = 0
    /\ transformers = 1
    /\ \E sc \in PipelineSchemas :
          /\ schema_config = sc
          /\ \E rf \in required_fields_of(sc) : InitStats(rf)
    /\ pipeline \in Processors
    /\ InitOutput(<<>>)

PipelineNext == Run /\ UNCHANGED tvars

\* records fed to a pipeline
PipelineSpec == PipelineInit /\ [][PipelineNext]_vars

\* a record was fed to the pipeline
Ran == stats_call.op = "process"

\* the stage that makes the i-th step: the innermost stage makes the first
StageOf(i) == pipeline[Len(pipeline) + 1 - i]

\* C14: stages compose linearly, the upstream first: the _process calls of
\* process(record) are those of the stages from the innermost outwards, each
\* once; the innermost is given the record and every other stage what its
\* upstream returned; the result is what the outermost stage's step returned.
\* A step that fails ends the call with its exception.
C14_LinearComposition ==
    Ran =>
       LET trace == stats_call.trace
           n == Len(trace)
       IN  /\ n \in 1..Len(pipeline)
           /\ \A i \in 1..n :
                 /\ trace[i].stage = StageOf(i)
                 /\ trace[i].input = IF i = 1 THEN stats_call.record
                                      ELSE trace[i - 1].outcome.value
                 /\ i < n => trace[i].outcome.kind = "return"
           /\ stats_outcome = trace[n].outcome
           /\ stats_outcome.kind = "return" => n = Len(pipeline)
           /\ record_index = stats_call.before.record_index +
                 Cardinality({i \in 1..n : trace[i].stage = "ComplianceStatsProcessor"})

C14_Witness ==
    /\ Ran
    /\ Len(pipeline) = 3
    /\ stats_outcome.kind = "return"
    /\ pipeline[1] = "ComplianceStatsProcessor"
    /\ pipeline[3] = "WhitespaceCleanupProcessor"
    /\ stats_call.trace[1].outcome.value # stats_call.record
    /\ stats_call.trace[2].outcome.value # stats_call.trace[1].outcome.value

\* C16: the compliance-stats stage and the console-echo stage are
\* pass-through: the step returns the very record it was given, valid or
\* invalid, so the stage after it is given what the stage before it returned.
C16_PassThrough ==
    Ran =>
       \A i \in DOMAIN stats_call.trace :
          LET step == stats_call.trace[i] IN
          step.stage \in {"ComplianceStatsProcessor", "ConsoleProcessor"} =>
             /\ step.outcome.kind = "return"
             /\ step.outcome.value = step.input
             /\ ~step.outcome.fresh
             /\ i < Len(stats_call.trace) => stats_call.trace[i + 1].input = step.input

C16_Witness ==
    /\ Ran
    /\ Len(stats_call.trace) = 3
    /\ stats_call.trace[1].stage = "ComplianceStatsProcessor"
    /\ stats_call.trace[2].stage = "ConsoleProcessor"
    /\ invalid_record_count = stats_call.before.invalid_record_count + 1
    /\ stats_call.printed # <<>>

(***************************************************************************)
(* The whitespace stage on its own, over every string of the alphabet.     *)
(***************************************************************************)
Strings == {Concat(c) : c \in CharSeqs}

WhitespaceRecords ==
    UNION {[header -> Strings \cup {NoneVal}] : header \in SUBSET SourceNames}

\* WhitespaceCleanupProcessor()._process(record)
Cleanup ==
    \E record \in WhitespaceRecords :
        LET res == WhitespaceCleanupProcessor_process(record) IN
        /\ stats_call' = [op |-> "cleanup", record |-> record, record_after |-> res.record]
        /\ stats_outcome' = res.outcome
        /\ UNCHANGED <<required_fields, valid_record_count, invalid_record_count,
                       error_table, record_index, schema_config, pipeline, ovars>>

WhitespaceNext == Cleanup /\ UNCHANGED tvars

WhitespaceSpec == Init /\ [][WhitespaceNext]_vars

Blanks == {c \in CharSeqs : \A i \in DOMAIN c : c[i] \in Whitespace}

\* trimmed is value without its leading and trailing whitespace
IsTrimOf(trimmed, value) ==
    \E c \in CharSeqs, leading \in Blanks, trailing \in Blanks :
        /\ Concat(c) = trimmed
        /\ c # <<>> => (c[1] \notin Whitespace /\ c[Len(c)] \notin Whitespace)
        /\ Len(leading) + Len(c) + Len(trailing) <= MaxValueLen
        /\ Concat(leading \o c \o trailing) = value

\* C15: the whitespace stage returns a new record with the keys of its input
\* and every value trimmed of leading and trailing whitespace, and leaves the
\* input record as it was; when a value is null (not a string) it fails with
\* an error and returns no record.
C15_Whitespace ==
    stats_call.op = "cleanup" =>
       LET record == stats_call.record IN
       /\ stats_call.record_after = record
       /\ IF \E key \in DOMAIN record : record[key] = NoneVal
          THEN stats_outcome.kind = "raise"
          ELSE /\ stats_outcome.kind = "return"
               /\ stats_outcome.fresh
               /\ DOMAIN stats_outcome.value = DOMAIN record
               /\ \A key \in DOMAIN record : IsTrimOf(stats_outcome.value[key], record[key])

C15_Witness ==
    /\ stats_call.op = "cleanup"
    /\ stats_outcome.kind = "return"
    /\ DOMAIN stats_call.record = SourceNames
    /\ stats_call.record["a"] = " x "
    /\ stats_outcome.value["a"] = "x"
    /\ stats_outcome.value["b"] = ""
    /\ stats_call.record["b"] # ""

C15_WitnessNull ==
    /\ stats_call.op = "cleanup"
    /\ stats_outcome.kind = "raise"
    /\ \E key \in DOMAIN stats_call.record : stats_call.record[key] = " x"

(***************************************************************************)
(* The transformer's value map read directly: value_map.get_value is what  *)
(* a datasource's lookup method is handed to resolve other fields.         *)
(***************************************************************************)
\* self.value_map.get_value(field_name, source_record)
GetValue ==
    \E n \in TargetNames, r \in SourceRecords :
        /\ call' = [op |-> "get_value", field_name |-> n, source_record |-> r]
        /\ outcome' = FieldValueMap_get_value(value_map, n, r)
        /\ UNCHANGED <<xvars, instances, transformers>>

ValueMapNext ==
    \/ (AddTargetField /\ UNCHANGED cvars)
    \/ (MapSourceToTargetField /\ UNCHANGED cvars)
    \/ (MapConstToTargetField /\ UNCHANGED cvars)
    \/ (RegisterDatasource /\ UNCHANGED cvars)
    \/ (GetValue /\ UNCHANGED cvars)

ValueMapSpec == Init /\ [][ValueMapNext]_vars

\* C17: after any sequence of mutator calls the names registered in the
\* value map are exactly the target fields mapped through the chain path or
\* the constant path (the fields of field_map), never a field that was only
\* given a datasource; and get_value on a name that is not registered fails.
C17_ValueMapNames ==
    /\ DOMAIN value_map = DOMAIN field_map
    /\ (call.op = "get_value" /\ call.field_name \notin DOMAIN value_map) =>
          outcome.kind = "raise"

\* what does hold of the value map: its names are fields that were mapped,
\* and get_value on a name that is not registered fails
C17_RegisteredAreMapped ==
    /\ DOMAIN value_map \subseteq DOMAIN field_map
    /\ (call.op = "get_value" /\ call.field_name \notin DOMAIN value_map) =>
          outcome.kind = "raise"

\* C18: for every name registered in the value map, after any sequence of
\* map_source_to_target_field and map_const_to_target_field calls, get_value
\* returns what the resolver field_map now holds for the field produces for
\* the record.
C18_ValueMapCurrent ==
    (call.op = "get_value" /\ call.field_name \in DOMAIN value_map) =>
       /\ call.field_name \in DOMAIN field_map
       /\ outcome = Return(Resolve(field_map[call.field_name], call.source_record), FALSE)

\* C18 holds of the fields whose last mapping went through the chain path
C18_CurrentWhenChain ==
    (/\ call.op = "get_value"
     /\ call.field_name \in DOMAIN field_map
     /\ field_map[call.field_name].kind = "field") =>
       outcome = Return(Resolve(field_map[call.field_name], call.source_record), FALSE)

(***************************************************************************)
(* More properties of RecordTransformer.transform                          *)
(***************************************************************************)
\* declared fields mapped to a chain resolver, with no datasource
ChainOnlyFields ==
    {f \in (target_record_fields \cap DOMAIN field_map) \ DOMAIN datasources :
        field_map[f].kind = "field"}

\* no candidate of the chain of f has a non-empty value in the source record
NoCandidate(f, source_record) ==
    \A i \in DOMAIN field_map[f].field_names :
        ~Truthy(Get(source_record, field_map[f].field_names[i]))

\* C19: a declared target field mapped to a chain resolver, with no
\* datasource, is always a key of transform's output: when no candidate has a
\* non-empty value the key is there with a null value and transform does not
\* fail; the keys of the output are the extra-field names and the declared
\* fields that have a datasource or a resolver.
C19_NullWhenNoCandidate ==
    call.op = "transform" =>
       /\ target_record_fields \cap DOMAIN datasources = {} => outcome.kind = "return"
       /\ outcome.kind = "return" =>
             /\ DOMAIN outcome.value = DOMAIN call.kwargs \cup ResolvedFields
             /\ \A f \in ChainOnlyFields :
                   NoCandidate(f, call.source_record) => outcome.value[f] = NoneVal

\* transform returned a null value for the chain field f, which the caller
\* did not pass, while g was resolved to a value
C19_Witness ==
    /\ Transformed
    /\ "f" \in ChainOnlyFields
    /\ NoCandidate("f", call.source_record)
    /\ "f" \notin DOMAIN call.kwargs
    /\ outcome.value["f"] = NoneVal
    /\ "g" \in ResolvedFields
    /\ outcome.value["g"] # NoneVal

\* C20: no call of transform fails with NoDatasourceForFieldException,
\* whatever the mutators made of the transformer and whatever the source
\* record: the error comes from a direct call of lookup only.
C20_NoDatasourceErrorFromLookupOnly ==
    (outcome.kind = "raise" /\ outcome.exc = "NoDatasourceForFieldException") =>
       call.op = "lookup"

\* transform was called with a declared field g that has no datasource and
\* no resolver, and failed with the error of the datasource of f
C20_Witness ==
    /\ call.op = "transform"
    /\ "g" \in target_record_fields \ (DOMAIN datasources \cup DOMAIN field_map)
    /\ "f" \in DOMAIN datasources
    /\ outcome.kind = "raise"
    /\ outcome.exc = "Exception"

\* the error is reached by a direct call of lookup
C20_WitnessLookup ==
    /\ call.op = "lookup"
    /\ outcome.kind = "raise"
    /\ outcome.exc = "NoDatasourceForFieldException"

(***************************************************************************)
(* Dictionary2CSVProcessor: the stage that prints the target records as    *)
(* delimited rows under a header row.  self is the record of its header    *)
(* fields, delimiter and record count.                                     *)
(***************************************************************************)
\* the delimiter transform_data gives the stage
Delimiter == "|"

\* the target_header_fields a stage is built with
HeaderFields == UNION {Orders(ks) : ks \in SUBSET TargetNames}

\* the records the upstream TransformProcessor hands to the stage
OutputValues == {NoneVal, "", "x"}
OutputRecords == UNION {[ks -> OutputValues] : ks \in SUBSET TargetNames}

\* delimiter.join(strings)
RECURSIVE Join(_, _)
Join(delimiter, strings) ==
    IF strings = <<>> THEN ""
    ELSE IF Len(strings) = 1 THEN strings[1]
    ELSE strings[1] \o delimiter \o Join(delimiter, Tail(strings))

\* the list record that _process builds from data_dict: a missing or None
\* field gives ''; str(data) of a string is the string
RecordCells(fields, data_dict) ==
    [i \in DOMAIN fields |->
        IF Get(data_dict, fields[i]) = NoneVal THEN "" ELSE data_dict[fields[i]]]

Output == [header_fields |-> header_fields, delimiter |-> Delimiter,
           record_count |-> record_count]

\* a stage that would print the header and the row of the first record
Dictionary2CSVProcessor_process_row_always(self, data_dict) ==
    [self |-> [self EXCEPT !.record_count = @ + 1],
     outcome |-> Return(data_dict, FALSE),
     printed |-> (IF self.record_count = 0
                  THEN <<Join(self.delimiter, self.header_fields)>> ELSE <<>>)
                 \o <<Join(self.delimiter, RecordCells(self.header_fields, data_dict))>>]

\* Dictionary2CSVProcessor._process: the stage after the call, the outcome
\* and the lines printed
Dictionary2CSVProcessor_process(self, data_dict) ==
    [self |-> [self EXCEPT !.record_count = @ + 1],
     outcome |-> Return(data_dict, FALSE),
     printed |-> IF self.record_count = 0
                 THEN <<Join(self.delimiter, self.header_fields)>>
                 ELSE <<Join(self.delimiter, RecordCells(self.header_fields, data_dict))>>]

\* d2csv_proc._process(data_dict)
WriteRow ==
    /\ record_count < MaxRecords
    /\ \E data_dict \in OutputRecords :
          LET res == Dictionary2CSVProcessor_process(Output, data_dict) IN
          /\ stats_call' = [op |-> "write", data_dict |-> data_dict]
          /\ stats_outcome' = res.outcome
          /\ record_count' = res.self.record_count
          /\ stdout' = stdout \o res.printed
          /\ UNCHANGED <<required_fields, valid_record_count, invalid_record_count,
                         error_table, record_index, schema_config, pipeline,
                         header_fields>>

OutputInit ==
    /\ InitTransformer /\ InitStats(<<>>) /\ schema_config = <<>> /\ pipeline = <<>>
    /\ \E fields \in HeaderFields : InitOutput(fields)

OutputNext == WriteRow /\ UNCHANGED tvars

\* records written by a Dictionary2CSVProcessor
OutputSpec == OutputInit /\ [][OutputNext]_vars

\* C21: after n records the stage has printed the header row once, before
\* any data row, and then one delimited row for each of the n records, the
\* last of them the row of the last record, a missing or null field as an
\* empty string; and it returned the record it was given.
C21_HeaderThenRows ==
    record_count > 0 =>
       /\ Len(stdout) = record_count + 1
       /\ stdout[1] = Join(Delimiter, header_fields)
       /\ stdout[Len(stdout)] =
             Join(Delimiter, RecordCells(header_fields, stats_call.data_dict))
       /\ stats_outcome = Return(stats_call.data_dict, FALSE)

\* what the stage does print: the header row in place of the row of the
\* first record, and a row for every later record
C21_FirstRowMissing ==
    record_count > 0 =>
       /\ Len(stdout) = record_count
       /\ stdout[1] = Join(Delimiter, header_fields)
       /\ record_count > 1 =>
             stdout[Len(stdout)] =
                Join(Delimiter, RecordCells(header_fields, stats_call.data_dict))
       /\ stats_outcome = Return(stats_call.data_dict, FALSE)

C21_WitnessRows ==
    /\ record_count = 3
    /\ header_fields = <<"f", "g">>
    /\ stdout = <<"f|g", "x|", "|x">>

====
